---- MODULE Spec2Model ----
(***************************************************************************)
(* A model of the test-exec crate (src/src/lib.rs): the exec! macro, which *)
(* builds a Command, spawns a child, writes its stdin, waits for it with   *)
(* an optional timeout, drains its output streams and asserts on the       *)
(* result, together with the helpers alter_path, wait, get_code, assert.   *)
(*                                                                         *)
(* Two specifications share the variables:                                 *)
(*   SpecEnv  the part of exec! before the spawn (lib.rs 316-350): how the *)
(*            child's environment and PATH are built;                      *)
(*   Spec     the part of exec! from the spawn on (lib.rs 350-417), run    *)
(*            concurrently with the child process.                         *)
(***************************************************************************)
EXTENDS Integers, Sequences, FiniteSets, TLC

VARIABLES
    \* ---- the macro's input (fixed by Init) ----
    cfg_clear_env,    \* $clear_env, an Option
    cfg_modify_path,  \* $modify_path, an Option
    cfg_env,          \* env: { $key: $value, ... } as a sequence of <<key, value>>
    inherited,        \* the environment of the calling process
    current_path,     \* env!("CARGO_MANIFEST_DIR")
    \* ---- the Command under construction (lib.rs 301-348) ----
    pc,               \* the position of exec! in its body
    cmdClear,         \* Command: env_clear() was called
    cmdVars,          \* Command: the variables set with env()
    modify_path,      \* let mut modify_path
    custom_path,      \* let mut custom_path
    envIdx,           \* the next $key : $value pair of the env loop
    alterCall,        \* the last call of alter_path: Some(<<path, returned value>>)
    childEnv,         \* the environment the spawned child sees, None before the spawn
    \* ---- the process that runs exec! ----
    nesting,          \* how many exec! calls run around the process that runs this one
    outerPath,        \* the PATH of the outermost process, before any exec!
    \* ---- the rest of the macro's input (fixed by Init) ----
    program,          \* $program: what the child does
    cfg_stdin,        \* $stdin, an Option of bytes
    cfg_timeout,      \* a $timeout is given
    cfg_code,         \* $code, an Option
    cfg_stdout,       \* $stdout, an Option of bytes
    cfg_stderr,       \* $stderr, an Option of bytes
    cfg_signal,       \* $signal, an Option
    \* ---- exec! after the spawn (lib.rs 350-417) ----
    toWrite,          \* the part of $stdin that write_all has still to write
    stdinOpen,        \* child.stdin is Some: the write end of the child's stdin is open
    status,           \* let status, an Option of ExitStatus
    stdout,           \* let mut stdout: Vec<u8>
    stderr,           \* let mut stderr: Vec<u8>
    failure,          \* the message of the panic that ended exec!, "" if none
    panicArgs,        \* the values the panic shows: <<expected, found>>, <<>> if none
    output,           \* the Output that exec! returned, an Option
    \* ---- the operating system and the child process ----
    stdinPipe,        \* bytes in the pipe to the child's stdin
    stdoutPipe,       \* bytes in the pipe from the child's stdout
    stderrPipe,       \* bytes in the pipe from the child's stderr
    childPc,          \* "run", "zombie" (terminated, not waited for) or "reaped"
    childStatus,      \* the ExitStatus the child terminated with, an Option
    outTodo,          \* bytes the child has still to write to its stdout
    errTodo,          \* bytes the child has still to write to its stderr
    elapsed,          \* wait_timeout's duration ran out with the child still running
    killSent,         \* child.kill() was called
    \* ---- history ----
    wroteOut,         \* every byte the child wrote to its stdout
    wroteErr,         \* every byte the child wrote to its stderr
    exitedInWindow,   \* the child terminated on its own before the duration ran out
    selfExited        \* the child terminated on its own

envVars == <<cfg_clear_env, cfg_modify_path, cfg_env, inherited, current_path,
             cmdClear, cmdVars, modify_path, custom_path, envIdx, alterCall, childEnv>>

callerVars == <<nesting, outerPath>>

cfgVars == <<callerVars, program, cfg_stdin, cfg_timeout, cfg_code, cfg_stdout, cfg_stderr,
             cfg_signal>>

engineVars == <<toWrite, stdinOpen, status, stdout, stderr, failure, panicArgs, output>>

osVars == <<stdinPipe, stdoutPipe, stderrPipe, childPc, childStatus, outTodo, errTodo,
            elapsed, killSent>>

histVars == <<wroteOut, wroteErr, exitedInWindow, selfExited>>

runVars == <<cfgVars, engineVars, osVars, histVars>>

vars == <<pc, envVars, runVars>>

\* Option<T>: None for an optional key of the macro that was not given
None == <<>>
Some(v) == <<v>>
IsSome(o) == Len(o) = 1
Unwrap(o) == o[1]

(***************************************************************************)
(* Bounds of the model.                                                    *)
(***************************************************************************)
MaxPathLen == 3       \* longest PATH value given in env: { PATH: ... }

(***************************************************************************)
(* Strings are sequences of symbols.  ":" is the separator of a search     *)
(* path on Unix, "/" the separator of a file path.                         *)
(***************************************************************************)
PathSep == ":"
DirSep  == "/"
PathSymbols == {"a", "b", PathSep}

Strings(S, n) == UNION {[1..k -> S] : k \in 0..n}

(***************************************************************************)
(* std::env::split_paths (Unix): the pieces between separators, the empty  *)
(* string giving one empty piece.                                          *)
(***************************************************************************)
RECURSIVE split_paths(_)
split_paths(s) ==
    IF \A i \in 1..Len(s) : s[i] # PathSep
    THEN <<s>>
    ELSE LET i == CHOOSE k \in 1..Len(s) :
                      s[k] = PathSep /\ \A j \in 1..(k - 1) : s[j] # PathSep
         IN  <<SubSeq(s, 1, i - 1)>> \o split_paths(SubSeq(s, i + 1, Len(s)))

(***************************************************************************)
(* std::env::join_paths (Unix): the entries with a separator between them; *)
(* an entry that holds the separator is an error.                          *)
(***************************************************************************)
JoinPathsError == "JoinPathsError"

RECURSIVE Joined(_)
Joined(paths) ==
    IF Len(paths) = 0 THEN <<>>
    ELSE IF Len(paths) = 1 THEN paths[1]
    ELSE paths[1] \o <<PathSep>> \o Joined(Tail(paths))

join_paths(paths) ==
    IF \E i \in 1..Len(paths) : \E j \in 1..Len(paths[i]) : paths[i][j] = PathSep
    THEN JoinPathsError
    ELSE Joined(paths)

(***************************************************************************)
(* PathBuf::push of a relative path and PathBuf::pop.                      *)
(***************************************************************************)
PathBufPush(buf, p) ==
    IF Len(buf) = 0 \/ buf[Len(buf)] = DirSep THEN buf \o p
    ELSE buf \o <<DirSep>> \o p

PathBufPop(buf) ==
    IF \A i \in 1..Len(buf) : buf[i] # DirSep THEN <<>>
    ELSE LET i == CHOOSE k \in 1..Len(buf) :
                      buf[k] = DirSep /\ \A j \in (k + 1)..Len(buf) : buf[j] # DirSep
         IN  IF i = 1 THEN <<DirSep>> ELSE SubSeq(buf, 1, i - 1)

(***************************************************************************)
(* alter_path (lib.rs 427-436).  The VecDeque is a sequence whose front is *)
(* its first element.                                                      *)
(***************************************************************************)
PushFront(paths, p) == <<p>> \o paths

BinsDebug(base)   == PathBufPush(base, <<"target", DirSep, "debug">>)
BinsRelease(base) == PathBufPush(PathBufPop(BinsDebug(base)), <<"release">>)

\* alter_path with the two push_front calls in the other order
alter_path_debug_last(path, base) ==
    join_paths(PushFront(PushFront(split_paths(path), BinsRelease(base)), BinsDebug(base)))

\* alter_path that leaves alone a path that already starts with the trusted entries
alter_path_once(path, base) ==
    LET paths0 == split_paths(path)
    IN  IF Len(paths0) >= 2 /\ paths0[1] = BinsRelease(base) /\ paths0[2] = BinsDebug(base)
        THEN join_paths(paths0)
        ELSE join_paths(PushFront(PushFront(paths0, BinsDebug(base)), BinsRelease(base)))

\* alter_path with the trusted entries pushed to the back
alter_path_push_back(path, base) ==
    join_paths(split_paths(path) \o <<BinsDebug(base), BinsRelease(base)>>)

alter_path(path, base) ==
    LET paths0 == split_paths(path)
        paths1 == PushFront(paths0, BinsDebug(base))
        paths2 == PushFront(paths1, BinsRelease(base))
    IN  join_paths(paths2)

(***************************************************************************)
(* The environment handed to the child: std::process::Command keeps a      *)
(* "clear" flag and the variables set explicitly; at spawn the child gets  *)
(* the inherited variables (none if cleared) overlaid with the explicit    *)
(* ones.  An environment is a function from the names it holds to values.  *)
(***************************************************************************)
EmptyEnv == [k \in {} |-> <<>>]

Put(m, k, v) == [x \in (DOMAIN m) \cup {k} |-> IF x = k THEN v ELSE m[x]]

\* Capture without the clear flag
CaptureIgnoringClear(clear, explicit, inh) ==
    [k \in (DOMAIN inh) \cup (DOMAIN explicit) |->
        IF k \in DOMAIN explicit THEN explicit[k] ELSE inh[k]]

Capture(clear, explicit, inh) ==
    LET base == IF clear THEN EmptyEnv ELSE inh
    IN  [k \in (DOMAIN base) \cup (DOMAIN explicit) |->
            IF k \in DOMAIN explicit THEN explicit[k] ELSE base[k]]

\* std::env::var_os("PATH").unwrap_or_default()
VarOsPathOrDefault(inh) == IF "PATH" \in DOMAIN inh THEN inh["PATH"] ELSE <<>>

(***************************************************************************)
(* The inputs of SpecEnv.                                                  *)
(***************************************************************************)
PathValues == Strings(PathSymbols, MaxPathLen)

InheritedEnvs ==
    { EmptyEnv,
      [k \in {"PATH"} |-> <<"b">>],
      [k \in {"PATH", "HOME"} |-> IF k = "PATH" THEN <<"b", PathSep, "a">> ELSE <<"h">>] }

EnvOverrides ==
    { <<>>, <<<<"USER", <<"root">>>>>> }
    \cup { <<<<"PATH", p>>>> : p \in PathValues }
    \cup { <<<<"PATH", p>>, <<"USER", <<"root">>>>>> : p \in PathValues }
    \cup { <<<<"USER", <<"root">>>>, <<"PATH", p>>>> : p \in PathValues }

ManifestDirs == { <<DirSep, "m">>, <<DirSep, "m", PathSep, "x">> }

\* the second part of exec! has not begun
RunIdle ==
    /\ nesting = 0
    /\ outerPath = VarOsPathOrDefault(inherited)
    /\ program = [name |-> "true", reads |-> FALSE, out |-> <<>>, err |-> <<>>,
                  code |-> 0, ends |-> TRUE]
    /\ cfg_stdin = None
    /\ cfg_timeout = FALSE
    /\ cfg_code = None
    /\ cfg_stdout = None
    /\ cfg_stderr = None
    /\ cfg_signal = None
    /\ toWrite = <<>>
    /\ stdinOpen = FALSE
    /\ status = None
    /\ stdout = <<>>
    /\ stderr = <<>>
    /\ failure = ""
    /\ panicArgs = <<>>
    /\ output = None
    /\ stdinPipe = <<>>
    /\ stdoutPipe = <<>>
    /\ stderrPipe = <<>>
    /\ childPc = "none"
    /\ childStatus = None
    /\ outTodo = <<>>
    /\ errTodo = <<>>
    /\ elapsed = FALSE
    /\ killSent = FALSE
    /\ wroteOut = <<>>
    /\ wroteErr = <<>>
    /\ exitedInWindow = FALSE
    /\ selfExited = FALSE

InitEnv ==
    /\ cfg_clear_env \in {None, Some(TRUE), Some(FALSE)}
    /\ cfg_modify_path \in {None, Some(TRUE), Some(FALSE)}
    /\ cfg_env \in EnvOverrides
    /\ inherited \in InheritedEnvs
    /\ current_path \in ManifestDirs
    /\ pc = "clear_env"
    /\ cmdClear = FALSE
    /\ cmdVars = EmptyEnv
    /\ modify_path = TRUE
    /\ custom_path = FALSE
    /\ envIdx = 1
    /\ alterCall = None
    /\ childEnv = None
    /\ RunIdle

\* lib.rs 316-326: env_clear() if $clear_env, then modify_path = $modify_path
ClearEnv ==
    /\ pc = "clear_env"
    /\ cmdClear' = (IsSome(cfg_clear_env) /\ Unwrap(cfg_clear_env))
    /\ modify_path' = IF IsSome(cfg_modify_path) THEN Unwrap(cfg_modify_path) ELSE TRUE
    /\ pc' = "env"
    /\ UNCHANGED <<cfg_clear_env, cfg_modify_path, cfg_env, inherited, current_path,
                   cmdVars, custom_path, envIdx, alterCall, childEnv>>
    /\ UNCHANGED runVars

\* the test of lib.rs 331 without modify_path
PathIsAlteredAlways(key, mp) == key = "PATH"

\* lib.rs 331: a PATH given in env is altered when modify_path is set
PathIsAltered(key, mp) == key = "PATH" /\ mp

\* lib.rs 340: the inherited PATH is altered when no PATH was given in env
DefaultPathApplies(cp, mp) == ~cp /\ mp

\* lib.rs 328-338: one $key : $value pair of the env loop
ApplyEnv ==
    /\ pc = "env"
    /\ envIdx <= Len(cfg_env)
    /\ LET key == cfg_env[envIdx][1]
           value == cfg_env[envIdx][2]
       IN  IF PathIsAltered(key, modify_path)
           THEN LET altered == alter_path(value, current_path)
                IN  /\ alterCall' = Some(<<value, altered>>)
                    /\ IF altered = JoinPathsError
                       THEN /\ pc' = "panic_path"
                            /\ UNCHANGED <<cmdVars, custom_path, envIdx>>
                       ELSE /\ cmdVars' = Put(cmdVars, "PATH", altered)
                            /\ custom_path' = TRUE
                            /\ envIdx' = envIdx + 1
                            /\ pc' = pc
           ELSE /\ cmdVars' = Put(cmdVars, key, value)
                /\ envIdx' = envIdx + 1
                /\ UNCHANGED <<custom_path, pc, alterCall>>
    /\ UNCHANGED <<cfg_clear_env, cfg_modify_path, cfg_env, inherited, current_path,
                   cmdClear, modify_path, childEnv>>
    /\ UNCHANGED runVars

\* lib.rs 340-343: without a custom PATH, the inherited PATH is altered
DefaultPath ==
    /\ pc = "env"
    /\ envIdx > Len(cfg_env)
    /\ IF DefaultPathApplies(custom_path, modify_path)
       THEN LET path == VarOsPathOrDefault(inherited)
                altered == alter_path(path, current_path)
            IN  /\ alterCall' = Some(<<path, altered>>)
                /\ IF altered = JoinPathsError
                   THEN /\ pc' = "panic_path"
                        /\ UNCHANGED cmdVars
                   ELSE /\ cmdVars' = Put(cmdVars, "PATH", altered)
                        /\ pc' = "spawn"
       ELSE /\ pc' = "spawn"
            /\ UNCHANGED <<cmdVars, alterCall>>
    /\ UNCHANGED <<cfg_clear_env, cfg_modify_path, cfg_env, inherited, current_path,
                   cmdClear, modify_path, custom_path, envIdx, childEnv>>
    /\ UNCHANGED runVars

\* lib.rs 350: command.spawn() hands the child its environment
SpawnEnv ==
    /\ pc = "spawn"
    /\ childEnv' = Some(Capture(cmdClear, cmdVars, inherited))
    /\ pc' = "spawned"
    /\ UNCHANGED <<cfg_clear_env, cfg_modify_path, cfg_env, inherited, current_path,
                   cmdClear, cmdVars, modify_path, custom_path, envIdx, alterCall>>
    /\ UNCHANGED runVars

NextEnv == ClearEnv \/ ApplyEnv \/ DefaultPath \/ SpawnEnv

SpecEnv == InitEnv /\ [][NextEnv]_vars

(***************************************************************************)
(* exec! run by a process that was itself started by exec!: the child      *)
(* inherits the environment built for it (lib.rs 350) and builds the       *)
(* environment of its own child from that (lib.rs 341).                    *)
(***************************************************************************)
MaxNesting == 1       \* deepest exec! inside a child of exec!

\* the search paths the outermost process may have: none, or any PATH value
OuterEnvs == {EmptyEnv} \cup { [k \in {"PATH"} |-> p] : p \in PathValues }

InitNested ==
    /\ cfg_clear_env \in {None, Some(TRUE)}
    /\ cfg_modify_path = None
    /\ cfg_env \in { <<>>, <<<<"USER", <<"root">>>>>> }
    /\ inherited \in OuterEnvs
    /\ current_path \in ManifestDirs
    /\ pc = "clear_env"
    /\ cmdClear = FALSE
    /\ cmdVars = EmptyEnv
    /\ modify_path = TRUE
    /\ custom_path = FALSE
    /\ envIdx = 1
    /\ alterCall = None
    /\ childEnv = None
    /\ RunIdle

\* the spawned child runs exec! with the same input: lib.rs 301-305 anew, the
\* inherited environment being the one the child was given
NestedExec ==
    /\ pc = "spawned"
    /\ nesting < MaxNesting
    /\ nesting' = nesting + 1
    /\ inherited' = Unwrap(childEnv)
    /\ pc' = "clear_env"
    /\ cmdClear' = FALSE
    /\ cmdVars' = EmptyEnv
    /\ modify_path' = TRUE
    /\ custom_path' = FALSE
    /\ envIdx' = 1
    /\ alterCall' = None
    /\ childEnv' = None
    /\ UNCHANGED <<cfg_clear_env, cfg_modify_path, cfg_env, current_path, outerPath,
                   program, cfg_stdin, cfg_timeout, cfg_code, cfg_stdout, cfg_stderr,
                   cfg_signal, engineVars, osVars, histVars>>

NextNested == NextEnv \/ NestedExec

SpecNested == InitNested /\ [][NextNested]_vars

(***************************************************************************)
(* The second part: exec! from the spawn on, and the child.                *)
(***************************************************************************)
MaxLen  == 3          \* longest $stdin
PipeCap == 2          \* bytes a pipe holds before a write to it blocks

SIGKILL == 9          \* the signal child.kill() sends

Byte == {10, 255}     \* a text byte and a non-text byte
Bytes(n) == Strings(Byte, n)

Min(a, b) == IF a < b THEN a ELSE b

\* std::process::ExitStatus on Unix: exited with a code, or ended by a signal
Exited(c)   == [kind |-> "exited", n |-> c]
Signaled(g) == [kind |-> "signaled", n |-> g]

\* ExitStatus::code() and ExitStatusExt::signal()
StatusCode(st)   == IF st.kind = "exited" THEN Some(st.n) ELSE None
StatusSignal(st) == IF st.kind = "signaled" THEN Some(st.n) ELSE None

\* get_code without the signal as a fallback: the code, 0 if there is none
get_code_no_signal(st) == IF IsSome(StatusCode(st)) THEN Unwrap(StatusCode(st)) ELSE 0

\* get_code (lib.rs 455-459): status.code().or_else(|| status.signal()).unwrap()
get_code(st) ==
    IF IsSome(StatusCode(st)) THEN Unwrap(StatusCode(st)) ELSE Unwrap(StatusSignal(st))

\* {:?} of an i32 in the message of assert, kept apart from the byte strings
Debug(n) == <<n>>

\* assert (lib.rs 469-475) panics unless a = b
AssertHolds(a, b) == a = b

\* the expected code without the override by $code
ExpectedCodeAlwaysZero(c) == 0

\* lib.rs 363-366: let mut code = 0; code = $code
ExpectedCode(c) == IF IsSome(c) THEN Unwrap(c) ELSE 0

\* the signal assertion passing when no signal terminated the child
SignalAssertSkipsNormalExit(sig, st) ==
    IsSome(StatusSignal(st)) => Some(sig) = StatusSignal(st)

\* lib.rs 371: assert_eq!(Some($signal), status.signal())
SignalAssertHolds(sig, st) == Some(sig) = StatusSignal(st)

(***************************************************************************)
(* The programs run as the child.  A program that reads copies its stdin   *)
(* to its stdout until end of input (src/bin/print_stdin.rs); the others   *)
(* write out and err and exit with code, and "sleep" never exits on its    *)
(* own within the time the model covers.                                   *)
(***************************************************************************)
Prog(name, reads, out, err, code, ends) ==
    [name |-> name, reads |-> reads, out |-> out, err |-> err, code |-> code, ends |-> ends]

Programs ==
    { Prog("print_stdin", TRUE, <<>>, <<>>, 0, TRUE),
      Prog("true", FALSE, <<>>, <<>>, 0, TRUE),
      Prog("false", FALSE, <<>>, <<>>, 1, TRUE),
      Prog("echo", FALSE, <<10>>, <<>>, 0, TRUE),
      Prog("warn", FALSE, <<>>, <<10>>, 1, TRUE),
      Prog("flood", FALSE, [i \in 1..(PipeCap + 1) |-> 10], <<>>, 0, TRUE),
      Prog("sleep", FALSE, <<>>, <<>>, 0, FALSE) }

\* the part of exec! before the spawn is over
EnvDone ==
    /\ cfg_clear_env = None
    /\ cfg_modify_path = Some(FALSE)
    /\ cfg_env = <<>>
    /\ inherited = EmptyEnv
    /\ current_path = <<DirSep, "m">>
    /\ cmdClear = FALSE
    /\ cmdVars = EmptyEnv
    /\ modify_path = FALSE
    /\ custom_path = FALSE
    /\ envIdx = 1
    /\ alterCall = None
    /\ childEnv = Some(EmptyEnv)
    /\ nesting = 0
    /\ outerPath = <<>>

\* the state of the second part at the spawn (lib.rs 350), for a given input
Spawned ==
    /\ toWrite = IF IsSome(cfg_stdin) THEN Unwrap(cfg_stdin) ELSE <<>>
    /\ stdinOpen = IsSome(cfg_stdin)          \* Stdio::piped() or Stdio::null()
    /\ status = None
    /\ stdout = <<>>
    /\ stderr = <<>>
    /\ failure = ""
    /\ panicArgs = <<>>
    /\ output = None
    /\ stdinPipe = <<>>
    /\ stdoutPipe = <<>>
    /\ stderrPipe = <<>>
    /\ childPc = "run"
    /\ childStatus = None
    /\ outTodo = program.out
    /\ errTodo = program.err
    /\ elapsed = FALSE
    /\ killSent = FALSE
    /\ wroteOut = <<>>
    /\ wroteErr = <<>>
    /\ exitedInWindow = FALSE
    /\ selfExited = FALSE

Init ==
    /\ EnvDone
    /\ program \in Programs
    /\ cfg_stdin \in {None} \cup {Some(b) : b \in Bytes(MaxLen)}
    /\ cfg_timeout \in BOOLEAN
    /\ cfg_code \in {None, Some(1), Some(SIGKILL)}
    /\ cfg_stdout \in {None, Some(<<>>), Some(<<10>>)}
    /\ cfg_stderr \in {None, Some(<<>>)}
    /\ cfg_signal \in {None, Some(SIGKILL), Some(15)}
    /\ pc = "write_stdin"
    /\ Spawned

\* a panic whose message leaves out the two values
PanicWithoutValues(msg, shown) ==
    /\ pc' = "panicked"
    /\ failure' = msg
    /\ panicArgs' = <<>>
    /\ stdinOpen' = FALSE

\* exec! panics with a message, the assertions (lib.rs 371, 469-475) with the
\* expected and the found value in it; unwinding drops the Child, which closes
\* its stdin
Panic(msg, shown) ==
    /\ pc' = "panicked"
    /\ failure' = msg
    /\ panicArgs' = shown
    /\ stdinOpen' = FALSE

ChildTerminated == childPc # "run"
Ended == pc \in {"returned", "panicked"}

(***************************************************************************)
(* exec!, lib.rs 351-356: write_all($stdin) to the child's stdin.          *)
(***************************************************************************)
\* a single write instead of write_all: what the pipe does not take is dropped
WriteStdinOnce ==
    /\ pc = "write_stdin"
    /\ toWrite # <<>>
    /\ IF ChildTerminated
       THEN /\ Panic("Failed to write to stdin", <<>>)
            /\ UNCHANGED <<toWrite, stdinPipe>>
       ELSE /\ Len(stdinPipe) < PipeCap
            /\ LET k == Min(Len(toWrite), PipeCap - Len(stdinPipe))
               IN  /\ stdinPipe' = stdinPipe \o SubSeq(toWrite, 1, k)
                   /\ toWrite' = <<>>
            /\ UNCHANGED <<pc, failure, panicArgs, stdinOpen>>
    /\ UNCHANGED <<envVars, cfgVars, status, stdout, stderr, output, stdoutPipe, stderrPipe,
                   childPc, childStatus, outTodo, errTodo, elapsed, killSent, histVars>>

\* one write(2) of write_all: EPIPE when the child has terminated, else as
\* many bytes as the pipe takes; the write blocks while the pipe is full
WriteStdin ==
    /\ pc = "write_stdin"
    /\ toWrite # <<>>
    /\ IF ChildTerminated
       THEN /\ Panic("Failed to write to stdin", <<>>)
            /\ UNCHANGED <<toWrite, stdinPipe>>
       ELSE /\ Len(stdinPipe) < PipeCap
            /\ LET k == Min(Len(toWrite), PipeCap - Len(stdinPipe))
               IN  /\ stdinPipe' = stdinPipe \o SubSeq(toWrite, 1, k)
                   /\ toWrite' = SubSeq(toWrite, k + 1, Len(toWrite))
            /\ UNCHANGED <<pc, failure, panicArgs, stdinOpen>>
    /\ UNCHANGED <<envVars, cfgVars, status, stdout, stderr, output, stdoutPipe, stderrPipe,
                   childPc, childStatus, outTodo, errTodo, elapsed, killSent, histVars>>

\* write_all returned (or there is no $stdin): on to wait(&mut child, duration)
StdinWritten ==
    /\ pc = "write_stdin"
    /\ toWrite = <<>>
    /\ pc' = "wait"
    /\ UNCHANGED <<envVars, runVars>>

(***************************************************************************)
(* wait, lib.rs 439-450.  Child::wait and ChildExt::wait_timeout both drop *)
(* child.stdin before they wait.                                           *)
(***************************************************************************)
\* wait that takes the timeout path whether or not a timeout is given
WaitEnterAlwaysTimeout ==
    /\ pc = "wait"
    /\ stdinOpen' = FALSE
    /\ pc' = "wait_timeout"
    /\ UNCHANGED <<envVars, cfgVars, toWrite, status, stdout, stderr, failure, panicArgs, output,
                   osVars, histVars>>

\* wait that leaves child.stdin open while it waits
WaitEnterKeepStdin ==
    /\ pc = "wait"
    /\ pc' = IF cfg_timeout THEN "wait_timeout" ELSE "wait_blocking"
    /\ UNCHANGED <<envVars, runVars>>

WaitEnter ==
    /\ pc = "wait"
    /\ stdinOpen' = FALSE
    /\ pc' = IF cfg_timeout THEN "wait_timeout" ELSE "wait_blocking"
    /\ UNCHANGED <<envVars, cfgVars, toWrite, status, stdout, stderr, failure, panicArgs, output,
                   osVars, histVars>>

\* the engine collects the status of the terminated child
Reap ==
    /\ childPc = "zombie"
    /\ status' = childStatus
    /\ childPc' = "reaped"
    /\ pc' = "assert_code"
    /\ UNCHANGED <<envVars, cfgVars, toWrite, stdinOpen, stdout, stderr, failure, panicArgs, output,
                   stdinPipe, stdoutPipe, stderrPipe, childStatus, outTodo, errTodo,
                   elapsed, killSent, histVars>>

\* lib.rs 448: child.wait() without a timeout returns once the child has terminated
WaitBlocking ==
    /\ pc = "wait_blocking"
    /\ Reap

\* lib.rs 441: wait_timeout returns Some(status), the child terminated in time
WaitTimeoutSome ==
    /\ pc = "wait_timeout"
    /\ ~elapsed
    /\ Reap

\* the duration of wait_timeout runs out before the child has terminated
Elapse ==
    /\ pc = "wait_timeout"
    /\ ~elapsed
    /\ childPc = "run"
    /\ elapsed' = TRUE
    /\ UNCHANGED <<pc, envVars, cfgVars, engineVars, stdinPipe, stdoutPipe, stderrPipe,
                   childPc, childStatus, outTodo, errTodo, killSent, histVars>>

\* lib.rs 441-442: wait_timeout returns None
WaitTimeoutNone ==
    /\ pc = "wait_timeout"
    /\ elapsed
    /\ pc' = "kill"
    /\ UNCHANGED <<envVars, runVars>>

\* a kill that is reported and not delivered: wait returns with the child running
KillNotDelivered ==
    /\ pc = "kill"
    /\ killSent' = TRUE
    /\ status' = Some(Signaled(SIGKILL))
    /\ pc' = "assert_code"
    /\ UNCHANGED <<envVars, cfgVars, toWrite, stdinOpen, stdout, stderr, failure, panicArgs, output,
                   stdinPipe, stdoutPipe, stderrPipe, childPc, childStatus, outTodo, errTodo,
                   elapsed, histVars>>

\* a kill that replaces the status of a child that has terminated on its own
KillOverridesExit ==
    /\ pc = "kill"
    /\ killSent' = TRUE
    /\ childPc' = "zombie"
    /\ childStatus' = Some(Signaled(SIGKILL))
    /\ pc' = "wait_killed"
    /\ UNCHANGED <<envVars, cfgVars, engineVars, stdinPipe, stdoutPipe, stderrPipe,
                   outTodo, errTodo, elapsed, histVars>>

\* lib.rs 443-444: child.kill() sends SIGKILL, which ends a running child and
\* does nothing to one that has terminated and is not yet waited for
Kill ==
    /\ pc = "kill"
    /\ killSent' = TRUE
    /\ IF childPc = "run"
       THEN /\ childPc' = "zombie"
            /\ childStatus' = Some(Signaled(SIGKILL))
       ELSE UNCHANGED <<childPc, childStatus>>
    /\ pc' = "wait_killed"
    /\ UNCHANGED <<envVars, cfgVars, engineVars, stdinPipe, stdoutPipe, stderrPipe,
                   outTodo, errTodo, elapsed, histVars>>

\* lib.rs 445: child.wait() after the kill
WaitKilled ==
    /\ pc = "wait_killed"
    /\ Reap

(***************************************************************************)
(* exec!, lib.rs 363-417: the assertions, the draining of the streams and  *)
(* the Output.                                                             *)
(***************************************************************************)
\* lib.rs 363-367: assert(&code, &get_code(status), "Unexpected exit code")
AssertCode ==
    /\ pc = "assert_code"
    /\ IF AssertHolds(ExpectedCode(cfg_code), get_code(Unwrap(status)))
       THEN /\ pc' = "assert_signal"
            /\ UNCHANGED <<failure, panicArgs, stdinOpen>>
       ELSE Panic("Unexpected exit code",
                  <<Debug(ExpectedCode(cfg_code)), Debug(get_code(Unwrap(status)))>>)
    /\ UNCHANGED <<envVars, cfgVars, toWrite, status, stdout, stderr, output, osVars, histVars>>

\* a signal assertion after which the streams are compared without being read
AssertSignalSkipsDrain ==
    /\ pc = "assert_signal"
    /\ IF IsSome(cfg_signal) => SignalAssertHolds(Unwrap(cfg_signal), Unwrap(status))
       THEN /\ pc' = "assert_stdout"
            /\ UNCHANGED <<failure, panicArgs, stdinOpen>>
       ELSE Panic("Unexpected signal", <<Some(Unwrap(cfg_signal)), StatusSignal(Unwrap(status))>>)
    /\ UNCHANGED <<envVars, cfgVars, toWrite, status, stdout, stderr, output, osVars, histVars>>

\* lib.rs 369-373: assert_eq!(Some($signal), status.signal(), "Unexpected signal")
AssertSignal ==
    /\ pc = "assert_signal"
    /\ IF IsSome(cfg_signal) => SignalAssertHolds(Unwrap(cfg_signal), Unwrap(status))
       THEN /\ pc' = "drain_stdout"
            /\ UNCHANGED <<failure, panicArgs, stdinOpen>>
       ELSE Panic("Unexpected signal", <<Some(Unwrap(cfg_signal)), StatusSignal(Unwrap(status))>>)
    /\ UNCHANGED <<envVars, cfgVars, toWrite, status, stdout, stderr, output, osVars, histVars>>

\* a read(2) from a pipe: with bytes in the pipe it returns them; with none and
\* the writer gone it returns end of stream; otherwise it blocks
ReadHasBytes(pipe) == pipe # <<>>

\* a read taken for the end of the stream whatever the pipe holds
ReadAtEofAlways(pipe) == TRUE

ReadAtEof(pipe) == pipe = <<>> /\ ChildTerminated

\* lib.rs 375-377: io::copy(&mut child_stdout, &mut stdout) reads to end of stream
DrainStdout ==
    /\ pc = "drain_stdout"
    /\ \/ /\ ReadHasBytes(stdoutPipe)
          /\ stdout' = stdout \o stdoutPipe
          /\ stdoutPipe' = <<>>
          /\ pc' = pc
       \/ /\ ReadAtEof(stdoutPipe)
          /\ pc' = "drain_stderr"
          /\ UNCHANGED <<stdout, stdoutPipe>>
    /\ UNCHANGED <<envVars, cfgVars, toWrite, stdinOpen, status, stderr, failure, panicArgs, output,
                   stdinPipe, stderrPipe, childPc, childStatus, outTodo, errTodo,
                   elapsed, killSent, histVars>>

\* lib.rs 379-381: io::copy(&mut child_stderr, &mut stderr) reads to end of stream
DrainStderr ==
    /\ pc = "drain_stderr"
    /\ \/ /\ ReadHasBytes(stderrPipe)
          /\ stderr' = stderr \o stderrPipe
          /\ stderrPipe' = <<>>
          /\ pc' = pc
       \/ /\ ReadAtEof(stderrPipe)
          /\ pc' = "assert_stdout"
          /\ UNCHANGED <<stderr, stderrPipe>>
    /\ UNCHANGED <<envVars, cfgVars, toWrite, stdinOpen, status, stdout, failure, panicArgs, output,
                   stdinPipe, stdoutPipe, childPc, childStatus, outTodo, errTodo,
                   elapsed, killSent, histVars>>

\* lib.rs 400-404: assert(&a, &stdout.as_slice(), "Unexpected value of stdout")
AssertStdout ==
    /\ pc = "assert_stdout"
    /\ IF IsSome(cfg_stdout) => AssertHolds(Unwrap(cfg_stdout), stdout)
       THEN /\ pc' = "assert_stderr"
            /\ UNCHANGED <<failure, panicArgs, stdinOpen>>
       ELSE Panic("Unexpected value of stdout", <<Unwrap(cfg_stdout), stdout>>)
    /\ UNCHANGED <<envVars, cfgVars, toWrite, status, stdout, stderr, output, osVars, histVars>>

\* lib.rs 405-409: assert(&a, &stderr.as_slice(), "Unexpected value of stderr")
AssertStderr ==
    /\ pc = "assert_stderr"
    /\ IF IsSome(cfg_stderr) => AssertHolds(Unwrap(cfg_stderr), stderr)
       THEN /\ pc' = "output"
            /\ UNCHANGED <<failure, panicArgs, stdinOpen>>
       ELSE Panic("Unexpected value of stderr", <<Unwrap(cfg_stderr), stderr>>)
    /\ UNCHANGED <<envVars, cfgVars, toWrite, status, stdout, stderr, output, osVars, histVars>>

\* lib.rs 411-417: the Output is built and returned
Return ==
    /\ pc = "output"
    /\ output' = Some([status |-> Unwrap(status), stdout |-> stdout, stderr |-> stderr])
    /\ pc' = "returned"
    /\ UNCHANGED <<envVars, cfgVars, toWrite, stdinOpen, status, stdout, stderr, failure, panicArgs,
                   osVars, histVars>>

(***************************************************************************)
(* The child process, while exec! runs.                                    *)
(***************************************************************************)
ChildRuns == childPc = "run" /\ ~Ended

\* print_stdin.rs 7: copy reads what the stdin pipe holds
ChildRead ==
    /\ ChildRuns
    /\ program.reads
    /\ outTodo = <<>>
    /\ stdinPipe # <<>>
    /\ outTodo' = stdinPipe
    /\ stdinPipe' = <<>>
    /\ UNCHANGED <<pc, envVars, cfgVars, engineVars, stdoutPipe, stderrPipe, childPc,
                   childStatus, errTodo, elapsed, killSent, histVars>>

\* the child writes to its stdout as many bytes as the pipe takes
ChildWriteOut ==
    /\ ChildRuns
    /\ outTodo # <<>>
    /\ Len(stdoutPipe) < PipeCap
    /\ LET k == Min(Len(outTodo), PipeCap - Len(stdoutPipe))
       IN  /\ stdoutPipe' = stdoutPipe \o SubSeq(outTodo, 1, k)
           /\ wroteOut' = wroteOut \o SubSeq(outTodo, 1, k)
           /\ outTodo' = SubSeq(outTodo, k + 1, Len(outTodo))
    /\ UNCHANGED <<pc, envVars, cfgVars, engineVars, stdinPipe, stderrPipe, childPc,
                   childStatus, errTodo, elapsed, killSent, wroteErr, exitedInWindow, selfExited>>

\* the child writes to its stderr as many bytes as the pipe takes
ChildWriteErr ==
    /\ ChildRuns
    /\ errTodo # <<>>
    /\ Len(stderrPipe) < PipeCap
    /\ LET k == Min(Len(errTodo), PipeCap - Len(stderrPipe))
       IN  /\ stderrPipe' = stderrPipe \o SubSeq(errTodo, 1, k)
           /\ wroteErr' = wroteErr \o SubSeq(errTodo, 1, k)
           /\ errTodo' = SubSeq(errTodo, k + 1, Len(errTodo))
    /\ UNCHANGED <<pc, envVars, cfgVars, engineVars, stdinPipe, stdoutPipe, childPc,
                   childStatus, outTodo, elapsed, killSent, wroteOut, exitedInWindow, selfExited>>

\* the child's read of its stdin returns end of input
StdinAtEof == stdinPipe = <<>> /\ ~stdinOpen

\* the child exits with its code once it has written everything, a reading
\* child (print_stdin.rs 7-11) once its stdin is at end of input
ChildExit ==
    /\ ChildRuns
    /\ program.ends
    /\ outTodo = <<>>
    /\ errTodo = <<>>
    /\ program.reads => StdinAtEof
    /\ childPc' = "zombie"
    /\ childStatus' = Some(Exited(program.code))
    /\ exitedInWindow' = ~elapsed
    /\ selfExited' = TRUE
    /\ UNCHANGED <<pc, envVars, cfgVars, engineVars, stdinPipe, stdoutPipe, stderrPipe,
                   outTodo, errTodo, elapsed, killSent, wroteOut, wroteErr>>

Next ==
    \/ WriteStdin \/ StdinWritten
    \/ WaitEnter \/ WaitBlocking \/ WaitTimeoutSome \/ Elapse \/ WaitTimeoutNone
    \/ Kill \/ WaitKilled
    \/ AssertCode \/ AssertSignal \/ DrainStdout \/ DrainStderr
    \/ AssertStdout \/ AssertStderr \/ Return
    \/ ChildRead \/ ChildWriteOut \/ ChildWriteErr \/ ChildExit

Spec == Init /\ [][Next]_vars

(***************************************************************************)
(* Properties of the run, checked under Spec.                              *)
(***************************************************************************)
WaitReturned == IsSome(status)
AfterDrain == pc \in {"assert_stdout", "assert_stderr", "output", "returned"}
Payload == Unwrap(cfg_stdin)

\* C1: with a timeout and a child that outlives it, the kill comes after the
\* duration ran out; once wait has returned the child is reaped and its status
\* is termination by signal 9, whose effective code is 9; a $signal of 9 passes
\* the signal assertion and any other $signal makes exec! fail.
C1_TimeoutKillsWithSigkill ==
    (cfg_timeout /\ program.name = "sleep") =>
        /\ killSent => elapsed
        /\ WaitReturned =>
               /\ killSent
               /\ childPc = "reaped"
               /\ StatusSignal(Unwrap(status)) = Some(9)
               /\ get_code(Unwrap(status)) = 9
        /\ (cfg_signal = Some(9) /\ cfg_code = Some(9)) =>
               failure \notin {"Unexpected signal", "Unexpected exit code"}
        /\ (IsSome(cfg_signal) /\ cfg_signal # Some(9) /\ WaitReturned) =>
               /\ pc \in {"assert_code", "assert_signal", "panicked"}
               /\ (pc = "panicked" /\ cfg_code = Some(9)) => failure = "Unexpected signal"

C1_Witness ==
    /\ cfg_timeout
    /\ program.name = "sleep"
    /\ cfg_signal = Some(9)
    /\ cfg_code = Some(9)
    /\ pc = "returned"
    /\ Unwrap(output).status = Signaled(9)

\* C2: a kill is sent only with a timeout given and the duration run out while
\* the child had not terminated; without a timeout, or with the child
\* terminating within the duration, wait returns only once the child has
\* terminated on its own, no kill is sent, and the status is the child's own.
C2_KillOnlyAfterDeadline ==
    /\ killSent => (cfg_timeout /\ elapsed /\ ~exitedInWindow)
    /\ ((~cfg_timeout \/ exitedInWindow) /\ WaitReturned) =>
           /\ ~killSent
           /\ childPc = "reaped"
           /\ Unwrap(status) = Exited(program.code)
    /\ (~cfg_timeout /\ pc \notin {"write_stdin", "wait", "wait_blocking", "panicked"}) =>
           /\ WaitReturned
           /\ ~killSent

C2_Witness ==
    /\ cfg_timeout
    /\ exitedInWindow
    /\ program.name = "false"
    /\ pc = "returned"
    /\ Unwrap(output).status = Exited(1)

\* the round trip through print_stdin without a timeout: exec! is never stuck
\* before its end, the child exits with code 0, and what is captured is the
\* payload on stdout and nothing on stderr
RoundTripHolds ==
    /\ ~Ended => ENABLED Next
    /\ WaitReturned => Unwrap(status) = Exited(0)
    /\ AfterDrain => (stdout = Payload /\ stderr = <<>>)
    /\ pc = "returned" => Unwrap(output).stdout = Payload

RoundTripCase == program.name = "print_stdin" /\ IsSome(cfg_stdin) /\ ~cfg_timeout

\* C3 as stated: the round trip holds for every payload.
C3_RoundTripAnyPayload == RoundTripCase => RoundTripHolds

\* C3 amended: the round trip holds for every payload no longer than the
\* capacity of the pipe from the child's stdout.
C3_RoundTripWithinPipe == (RoundTripCase /\ Len(Payload) <= PipeCap) => RoundTripHolds

C3_Witness ==
    /\ RoundTripCase
    /\ Payload = <<255, 10>>
    /\ pc = "returned"
    /\ Unwrap(output).stdout = <<255, 10>>

\* the checks that the macro's input asks for, on the status and on all the
\* child wrote to its streams
\* (the effective code is the exit code, or the number of the signal)
CodeCheckPasses == (IF IsSome(cfg_code) THEN Unwrap(cfg_code) ELSE 0) = Unwrap(status).n
SignalCheckPasses ==
    IsSome(cfg_signal) =>
        (Unwrap(status).kind = "signaled" /\ Unwrap(status).n = Unwrap(cfg_signal))
StdoutCheckPasses == IsSome(cfg_stdout) => Unwrap(cfg_stdout) = wroteOut
StderrCheckPasses == IsSome(cfg_stderr) => Unwrap(cfg_stderr) = wroteErr

\* C4: once the child has been waited for, exec! ends by returning an Output
\* exactly if the code check (against $code, or 0 without one) and each of the
\* given $signal, $stdout and $stderr checks pass.
C4_ReturnsIffChecksPass ==
    (Ended /\ WaitReturned) =>
        (pc = "returned" <=>
            (CodeCheckPasses /\ SignalCheckPasses /\ StdoutCheckPasses /\ StderrCheckPasses))

C4_Witness ==
    /\ pc = "returned"
    /\ program.name = "echo"
    /\ cfg_code = None
    /\ cfg_signal = None
    /\ cfg_stdout = Some(<<10>>)
    /\ cfg_stderr = Some(<<>>)

\* C5: with a $signal given and a child that exited normally, exec! never gets
\* past the signal assertion and never returns; it fails, and the failure is
\* the signal mismatch whenever the code check passes.
C5_SignalOnNormalExitFails ==
    (IsSome(cfg_signal) /\ WaitReturned /\ Unwrap(status).kind = "exited") =>
        /\ pc \in {"assert_code", "assert_signal", "panicked"}
        /\ pc = "panicked" => failure \in {"Unexpected exit code", "Unexpected signal"}
        /\ (pc = "panicked" /\ CodeCheckPasses) => failure = "Unexpected signal"

C5_Witness ==
    /\ pc = "panicked"
    /\ failure = "Unexpected signal"
    /\ program.name = "false"
    /\ cfg_code = Some(1)
    /\ cfg_signal = Some(9)

\* the Output exists only once exec! has returned, with the child reaped, both
\* pipes drained to the end, and all the child wrote in it
OutputComplete ==
    /\ IsSome(output) <=> pc = "returned"
    /\ pc = "returned" =>
           /\ childPc = "reaped"
           /\ stdoutPipe = <<>> /\ stderrPipe = <<>>
           /\ Some(Unwrap(output).status) = childStatus
           /\ Unwrap(output).stdout = wroteOut
           /\ Unwrap(output).stderr = wroteErr

\* an Output, once built, is never replaced by another
OutputOnce == [][IsSome(output) => output' = output]_vars

\* C10: an Output exists only once exec! has returned, and then the child is
\* reaped, both pipes are drained to the end of the stream, and the Output
\* holds the child's status and every byte the child wrote to each stream; an
\* Output, once built, is never replaced.
C10_ResultAfterReapAndDrain == []OutputComplete /\ OutputOnce

C10_Witness ==
    /\ pc = "returned"
    /\ program.name = "flood"
    /\ killSent
    /\ Len(Unwrap(output).stdout) = PipeCap


(***************************************************************************)
(* Properties of the environment and PATH handling, checked under SpecEnv. *)
(***************************************************************************)
TrustedRelease == current_path \o <<DirSep, "target", DirSep, "release">>
TrustedDebug   == current_path \o <<DirSep, "target", DirSep, "debug">>

ModifyEnabled == cfg_modify_path \in {None, Some(TRUE)}
ClearEnabled  == cfg_clear_env = Some(TRUE)
HasOverride(k) == \E i \in 1..Len(cfg_env) : cfg_env[i][1] = k
OverrideValue(k) == cfg_env[CHOOSE i \in 1..Len(cfg_env) : cfg_env[i][1] = k][2]
AlterReturned == IsSome(alterCall) /\ Unwrap(alterCall)[2] # JoinPathsError

\* C6 as stated: alter_path returns the debug entry, then the release entry,
\* then the existing search path unchanged.
C6_DebugBeforeRelease ==
    AlterReturned =>
        Unwrap(alterCall)[2] =
            TrustedDebug \o <<PathSep>> \o TrustedRelease \o <<PathSep>> \o Unwrap(alterCall)[1]

\* C6 amended: alter_path returns the release entry, then the debug entry, then
\* the existing search path, its entries in their order and unchanged.
C6_ReleaseDebugThenOriginal ==
    AlterReturned =>
        Unwrap(alterCall)[2] =
            TrustedRelease \o <<PathSep>> \o TrustedDebug \o <<PathSep>> \o Unwrap(alterCall)[1]

C6_Witness ==
    /\ AlterReturned
    /\ Unwrap(alterCall)[1] = <<"a", PathSep, "b">>

\* C7: when PATH modification is applied, the first entry of the child's PATH is
\* <crate>/target/release and the second is <crate>/target/debug, before any
\* other entry.
C7_ReleaseFirstInChildPath ==
    (pc = "spawned" /\ ModifyEnabled) =>
        /\ "PATH" \in DOMAIN Unwrap(childEnv)
        /\ LET entries == split_paths(Unwrap(childEnv)["PATH"])
           IN  /\ Len(entries) >= 3
               /\ entries[1] = TrustedRelease
               /\ entries[2] = TrustedDebug
               /\ \A i \in 3..Len(entries) : entries[i] \notin {TrustedRelease, TrustedDebug}

C7_Witness ==
    /\ pc = "spawned"
    /\ ModifyEnabled
    /\ ~HasOverride("PATH")
    /\ "PATH" \in DOMAIN inherited
    /\ Len(split_paths(Unwrap(childEnv)["PATH"])) = 4

\* The child's PATH when modification is enabled and env gives a PATH, and
\* when modification is disabled and env gives a PATH.
C8_OverrideCases ==
    LET env == Unwrap(childEnv)
    IN  /\ (ModifyEnabled /\ HasOverride("PATH")) =>
               /\ "PATH" \in DOMAIN env
               /\ env["PATH"] = TrustedRelease \o <<PathSep>> \o TrustedDebug
                                    \o <<PathSep>> \o OverrideValue("PATH")
        /\ (~ModifyEnabled /\ HasOverride("PATH")) =>
               /\ "PATH" \in DOMAIN env
               /\ env["PATH"] = OverrideValue("PATH")

\* C8 as stated: ... and with modification disabled and no PATH in env, the
\* child's PATH is the inherited one.
C8_DisabledLeavesInherited ==
    pc = "spawned" =>
        /\ C8_OverrideCases
        /\ (~ModifyEnabled /\ ~HasOverride("PATH")) =>
               /\ "PATH" \in DOMAIN Unwrap(childEnv) <=> "PATH" \in DOMAIN inherited
               /\ "PATH" \in DOMAIN inherited =>
                      Unwrap(childEnv)["PATH"] = inherited["PATH"]

\* C8 amended: with modification enabled and a PATH in env, the child's PATH is
\* the composed override; with modification disabled it is the override if one
\* is given, and otherwise the inherited PATH when the environment is not
\* cleared and no PATH at all when it is cleared.
C8_DisabledLeavesBase ==
    pc = "spawned" =>
        /\ C8_OverrideCases
        /\ (~ModifyEnabled /\ ~HasOverride("PATH") /\ ~ClearEnabled) =>
               /\ "PATH" \in DOMAIN Unwrap(childEnv) <=> "PATH" \in DOMAIN inherited
               /\ "PATH" \in DOMAIN inherited =>
                      Unwrap(childEnv)["PATH"] = inherited["PATH"]
        /\ (~ModifyEnabled /\ ~HasOverride("PATH") /\ ClearEnabled) =>
               "PATH" \notin DOMAIN Unwrap(childEnv)

C8_Witness ==
    /\ pc = "spawned"
    /\ ModifyEnabled
    /\ HasOverride("PATH")
    /\ OverrideValue("PATH") = <<"a", PathSep, "b">>
    /\ "PATH" \in DOMAIN inherited

\* C9: with the environment cleared and PATH modification disabled, the child's
\* environment holds exactly the names given in env, each with its given value.
C9_ClearedEnvIsOverrides ==
    (pc = "spawned" /\ ClearEnabled /\ ~ModifyEnabled) =>
        /\ DOMAIN Unwrap(childEnv) = {cfg_env[i][1] : i \in 1..Len(cfg_env)}
        /\ \A i \in 1..Len(cfg_env) : Unwrap(childEnv)[cfg_env[i][1]] = cfg_env[i][2]

C9_Witness ==
    /\ pc = "spawned"
    /\ ClearEnabled
    /\ ~ModifyEnabled
    /\ Len(cfg_env) = 2
    /\ DOMAIN inherited = {"PATH", "HOME"}

(***************************************************************************)
(* Properties of a nested exec!, checked under SpecNested.                 *)
(***************************************************************************)
TrustedPair == <<TrustedRelease, TrustedDebug>>

\* C11: when exec! runs inside a child of exec!, both composing the inherited
\* PATH, the PATH of the inner child is a search path without error whose
\* entries are the pair of trusted entries, the pair again, and then the
\* entries of the outermost PATH in their order and unchanged.
C11_ComposedTwice ==
    (pc = "spawned" /\ nesting = 1) =>
        /\ "PATH" \in DOMAIN Unwrap(childEnv)
        /\ Unwrap(childEnv)["PATH"] # JoinPathsError
        /\ split_paths(Unwrap(childEnv)["PATH"]) =
               TrustedPair \o TrustedPair \o split_paths(outerPath)
        /\ Unwrap(childEnv)["PATH"] =
               TrustedRelease \o <<PathSep>> \o TrustedDebug \o <<PathSep>>
                   \o TrustedRelease \o <<PathSep>> \o TrustedDebug \o <<PathSep>> \o outerPath

C11_Witness ==
    /\ pc = "spawned"
    /\ nesting = 1
    /\ outerPath = <<"b", PathSep, "a">>
    /\ Len(split_paths(Unwrap(childEnv)["PATH"])) = 6

(***************************************************************************)
(* Which PATH alter_path is given, checked under SpecEnv.                  *)
(***************************************************************************)
\* the PATH of the environment built so far, before alter_path is applied:
\* the override when one is given, else nothing after env_clear, else the
\* inherited one
EffectivePath ==
    IF HasOverride("PATH") THEN OverrideValue("PATH")
    ELSE IF ClearEnabled THEN <<>>
    ELSE VarOsPathOrDefault(inherited)

InheritedEntryLeaks ==
    /\ "PATH" \in DOMAIN Unwrap(childEnv)
    /\ Unwrap(childEnv)["PATH"] #
           TrustedRelease \o <<PathSep>> \o TrustedDebug \o <<PathSep>>

\* C12: alter_path is always given the PATH of the environment being built
\* (after env_clear and the overrides), never the inherited PATH where the
\* two differ; with clear_env, modify_path on and no PATH override it is
\* given an empty value and the child's PATH holds no inherited entry.
C12_ComposerGetsEffectivePath ==
    /\ IsSome(alterCall) => Unwrap(alterCall)[1] = EffectivePath
    /\ (pc = "spawned" /\ ClearEnabled /\ ModifyEnabled /\ ~HasOverride("PATH"))
           => ~InheritedEntryLeaks

(***************************************************************************)
(* The payload and the waiting engine, checked under Spec.                 *)
(***************************************************************************)
\* the engine is inside wait(&mut child, duration), past the close of stdin
EngineWaits == pc \in {"wait_blocking", "wait_timeout", "kill", "wait_killed"}

\* the bytes of the payload that left the engine: still in the pipe, or
\* taken by a reading child, which writes them to its stdout
Delivered == IF program.reads THEN wroteOut \o outTodo \o stdinPipe ELSE stdinPipe

\* a reading child that has nothing to read and no end of input to see
ChildBlockedReading ==
    /\ program.reads
    /\ childPc = "run"
    /\ outTodo = <<>>
    /\ stdinPipe = <<>>
    /\ stdinOpen

\* C13: with a payload, while the engine waits for the child (with or without
\* a timeout) the whole payload has been written and the child's stdin is
\* closed, so a reading child is never blocked reading: once it has taken the
\* last byte it sees the end of input.
C13_PayloadWrittenAndClosedBeforeWait ==
    (IsSome(cfg_stdin) /\ EngineWaits) =>
        /\ toWrite = <<>>
        /\ Delivered = Payload
        /\ ~stdinOpen
        /\ ~ChildBlockedReading
        /\ (program.reads /\ childPc = "run" /\ stdinPipe = <<>>) => StdinAtEof

C13_Witness ==
    /\ IsSome(cfg_stdin)
    /\ Len(Payload) = PipeCap
    /\ cfg_timeout
    /\ pc = "wait_timeout"
    /\ program.name = "print_stdin"
    /\ childPc = "run"
    /\ stdinPipe = <<>>
    /\ outTodo = <<>>
    /\ wroteOut = Payload

ChildBlockedWriting ==
    /\ childPc = "run"
    /\ outTodo # <<>> \/ errTodo # <<>>
    /\ outTodo # <<>> => Len(stdoutPipe) = PipeCap
    /\ errTodo # <<>> => Len(stderrPipe) = PipeCap

\* the engine is blocked in child.wait() or in wait_timeout
EngineBlockedWaiting == pc \in {"wait_blocking", "wait_timeout"}

Draining == pc \in {"drain_stdout", "drain_stderr"}

\* all the bytes the child writes to its stdout and to its stderr
TotalOut ==
    IF program.reads THEN (IF IsSome(cfg_stdin) THEN Payload ELSE <<>>) ELSE program.out
TotalErr == program.err

\* C15 as stated: in no reachable state is the child blocked writing to a full
\* stdout or stderr pipe while the engine is blocked waiting for it to exit.
C15_NeverBlockedWritingWhileWaiting == ~(ChildBlockedWriting /\ EngineBlockedWaiting)

\* C15 amended: the engine reads the stdout and stderr pipes only after the
\* child has terminated and been waited for; while the engine is blocked
\* waiting, a child whose output on each stream is no longer than the pipe
\* capacity is never blocked writing.
C15_NoWriteBlockWithinPipe ==
    /\ Draining => childPc = "reaped"
    /\ (Len(TotalOut) <= PipeCap /\ Len(TotalErr) <= PipeCap) =>
           ~(ChildBlockedWriting /\ EngineBlockedWaiting)

C15_Witness ==
    /\ program.name = "print_stdin"
    /\ IsSome(cfg_stdin)
    /\ pc = "wait_blocking"
    /\ childPc = "run"
    /\ Len(stdoutPipe) = PipeCap
    /\ stdoutPipe = Payload

(***************************************************************************)
(* The order of waiting, draining and comparing, checked under Spec.       *)
(***************************************************************************)
CodeOrSignalFailed == failure \in {"Unexpected exit code", "Unexpected signal"}
StreamFailed == failure \in {"Unexpected value of stdout", "Unexpected value of stderr"}

\* the code assertion has been evaluated
CodeCompared ==
    \/ pc \in {"assert_signal", "drain_stdout", "drain_stderr", "assert_stdout",
               "assert_stderr", "output", "returned"}
    \/ CodeOrSignalFailed
    \/ StreamFailed

\* a stream assertion is being or has been evaluated
StreamCompared == pc \in {"assert_stdout", "assert_stderr", "output", "returned"} \/ StreamFailed

\* both streams have been read to their end: all the child wrote is captured
BothDrained ==
    /\ childPc = "reaped"
    /\ stdoutPipe = <<>>
    /\ stderrPipe = <<>>
    /\ stdout = wroteOut
    /\ stderr = wroteErr

\* C16 as stated: no expectation is compared and no assertion failure is raised
\* before both streams have been drained to their end.
C16_NothingComparedBeforeDrained ==
    /\ CodeCompared => BothDrained
    /\ StreamCompared => BothDrained

\* C16 amended: the exit code and the signal are compared right after the wait,
\* with the child reaped and before anything is read from the streams; stdout
\* and stderr are compared only after both streams have been drained.
C16_StreamsComparedAfterDrained ==
    /\ StreamCompared => BothDrained
    /\ (pc \in {"assert_code", "assert_signal"} \/ CodeOrSignalFailed) =>
           /\ WaitReturned
           /\ childPc = "reaped"
           /\ stdout = <<>>
           /\ stderr = <<>>

C16_Witness ==
    /\ failure = "Unexpected exit code"
    /\ program.name = "echo"
    /\ stdoutPipe = program.out
    /\ stdout = <<>>

(***************************************************************************)
(* What a failed expectation reports, checked under Spec.                  *)
(***************************************************************************)
\* the first expectation that does not hold, in the order code, signal,
\* stdout, stderr: its message, the expected and the actual value
FirstMismatch ==
    IF ~CodeCheckPasses
    THEN <<"Unexpected exit code",
           <<IF IsSome(cfg_code) THEN Unwrap(cfg_code) ELSE 0>>, <<Unwrap(status).n>>>>
    ELSE IF ~SignalCheckPasses
    THEN <<"Unexpected signal", cfg_signal,
           IF Unwrap(status).kind = "signaled" THEN <<Unwrap(status).n>> ELSE <<>>>>
    ELSE IF ~StdoutCheckPasses
    THEN <<"Unexpected value of stdout", Unwrap(cfg_stdout), wroteOut>>
    ELSE <<"Unexpected value of stderr", Unwrap(cfg_stderr), wroteErr>>

SomeMismatch ==
    ~(CodeCheckPasses /\ SignalCheckPasses /\ StdoutCheckPasses /\ StderrCheckPasses)

\* C17: once the child has been waited for and exec! has ended, if any of the
\* code, signal, stdout and stderr expectations does not hold then exec! has
\* panicked, the message names the first of them that does not hold, in that
\* order, and the panic shows the expected and the actual value of that field.
C17_FirstMismatchReported ==
    (Ended /\ WaitReturned /\ SomeMismatch) =>
        /\ pc = "panicked"
        /\ failure = FirstMismatch[1]
        /\ panicArgs = <<FirstMismatch[2], FirstMismatch[3]>>

C17_Witness ==
    /\ pc = "panicked"
    /\ program.name = "warn"
    /\ cfg_code = Some(1)
    /\ cfg_signal = None
    /\ cfg_stdout = Some(<<>>)
    /\ cfg_stderr = Some(<<>>)
    /\ failure = "Unexpected value of stderr"
    /\ panicArgs = <<<<>>, program.err>>

(***************************************************************************)
(* How an invocation ends, checked under Spec.                             *)
(***************************************************************************)
\* C18: with a timeout, an invocation that has not ended can always go on
\* towards its end whatever the child does: it is never stuck for good, not
\* with a child that never reads while the payload is larger than the stdin
\* pipe, and not with a child that never exits.
C18_TimeoutNeverStuck == (cfg_timeout /\ ~Ended) => ENABLED Next

\* C19: whenever exec! has ended, by returning an Output, by a failed
\* assertion or by a failed write of the payload, the child has terminated and
\* has been waited for.
C19_EndedMeansReaped == Ended => childPc = "reaped"

\* a child that exits without reading, with a payload that fits in the pipe
ExitsWithoutReading ==
    /\ ~program.reads
    /\ program.ends
    /\ IsSome(cfg_stdin)
    /\ Payload # <<>>
    /\ Len(Payload) <= PipeCap

\* C20: for a child that exits without reading its stdin and a payload that is
\* not empty and fits in the pipe, the outcome does not depend on whether the
\* child exits before or after the write: the write never fails with a broken
\* pipe, as it does not when the child exits after it.
C20_NoBrokenPipeByScheduling ==
    ExitsWithoutReading => failure # "Failed to write to stdin"

====
